---- MODULE Spec2Model ----
(***************************************************************************)
(* Model of the markdown memory graph builder (parser: discoverFiles,      *)
(* parseFile, buildGraph) and of the HTTP server that caches the graph     *)
(* (server/index.js: getGraph, PUT and DELETE /api/source).                *)
(*                                                                         *)
(* A JavaScript string is a sequence of one-character strings, so that     *)
(* prefix tests, splits, trims and regular expressions are computed on    *)
(* characters as the code computes them.                                   *)
(***************************************************************************)
EXTENDS Integers, Sequences, FiniteSets, TLC

(***************************************************************************)
(* Strings                                                                 *)
(***************************************************************************)
UpperChars == <<"A","B","C","D","E","F","G","H","I","J","K","L","M",
                "N","O","P","Q","R","S","T","U","V","W","X","Y","Z">>

LowerChars == <<"a","b","c","d","e","f","g","h","i","j","k","l","m",
                "n","o","p","q","r","s","t","u","v","w","x","y","z">>

DigitChars == {"0","1","2","3","4","5","6","7","8","9"}

Range(s) == { s[i] : i \in DOMAIN s }

IsUpper(c) == \E i \in DOMAIN UpperChars : UpperChars[i] = c

IsLower(c) == \E i \in DOMAIN LowerChars : LowerChars[i] = c

IsDigit(c) == c \in DigitChars

\* \s of a JavaScript regular expression, and the characters trim() removes
IsSpace(c) == c \in {" ", "\n", "\t", "\r"}

\* the line terminators "." of a regular expression does not match
IsNewline(c) == c \in {"\n", "\r"}

LowerChar(c) ==
  IF IsUpper(c) THEN LowerChars[CHOOSE i \in DOMAIN UpperChars : UpperChars[i] = c]
  ELSE c

\* String.prototype.toLowerCase
ToLowerCase(s) == [i \in DOMAIN s |-> LowerChar(s[i])]

\* s.slice(from, to) with 0-based from (inclusive) and to (exclusive), both
\* already within 0..Len(s)
Slice(s, from, to) == IF to <= from THEN <<>> ELSE SubSeq(s, from + 1, to)

\* String.prototype.startsWith
StartsWith(s, p) == Len(p) <= Len(s) /\ SubSeq(s, 1, Len(p)) = p

\* String.prototype.endsWith
EndsWith(s, p) == Len(p) <= Len(s) /\ SubSeq(s, Len(s) - Len(p) + 1, Len(s)) = p

\* whether p occurs in s at 1-based position i
At(s, i, p) == i >= 1 /\ i + Len(p) - 1 <= Len(s) /\ SubSeq(s, i, i + Len(p) - 1) = p

\* String.prototype.trimEnd
TrimEnd(s) ==
  LET keep == { i \in DOMAIN s : ~IsSpace(s[i]) }
  IN  IF keep = {} THEN <<>>
      ELSE SubSeq(s, 1, CHOOSE i \in keep : \A j \in keep : j <= i)

\* String.prototype.trim
Trim(s) ==
  LET keep == { i \in DOMAIN s : ~IsSpace(s[i]) }
  IN  IF keep = {} THEN <<>>
      ELSE SubSeq(s, CHOOSE i \in keep : \A j \in keep : i <= j,
                     CHOOSE i \in keep : \A j \in keep : j <= i)

\* the smallest 1-based index of character c in s at or after from, 0 if none
IndexOfChar(s, c, from) ==
  LET hits == { i \in DOMAIN s : i >= from /\ s[i] = c }
  IN  IF hits = {} THEN 0 ELSE CHOOSE i \in hits : \A j \in hits : i <= j

\* s.split(c)[0]: the part of s before the first c
BeforeFirst(s, c) ==
  LET i == IndexOfChar(s, c, 1)
  IN  IF i = 0 THEN s ELSE SubSeq(s, 1, i - 1)

\* s.split(c) for a one-character separator: the sequence of the parts
RECURSIVE SplitFrom(_, _, _)
SplitFrom(s, c, from) ==
  LET i == IndexOfChar(s, c, from)
  IN  IF i = 0 THEN << SubSeq(s, from, Len(s)) >>
      ELSE << SubSeq(s, from, i - 1) >> \o SplitFrom(s, c, i + 1)

Split(s, c) == SplitFrom(s, c, 1)

\* parts.join(c)
RECURSIVE JoinWith(_, _)
JoinWith(parts, c) ==
  IF parts = <<>> THEN <<>>
  ELSE IF Len(parts) = 1 THEN parts[1]
  ELSE parts[1] \o <<c>> \o JoinWith(Tail(parts), c)

\* the concatenation of a sequence of sequences (push(...list) in a loop)
RECURSIVE Flatten(_)
Flatten(ss) ==
  IF ss = <<>> THEN <<>>
  ELSE IF Len(ss) = 1 THEN ss[1]
  ELSE Flatten(SubSeq(ss, 1, Len(ss) \div 2))
         \o Flatten(SubSeq(ss, (Len(ss) \div 2) + 1, Len(ss)))

(***************************************************************************)
(* node:path (posix)                                                       *)
(***************************************************************************)
Slash == "/"

Dot == <<".">>

DotDot == <<".", ".">>

\* normalizeString of node:path: the segments of a path with "" and "."
\* dropped and ".." resolved; a ".." that has nothing to pop is kept when
\* allowAboveRoot (a relative path) and dropped otherwise
RECURSIVE NormalizeSegments(_, _, _)
NormalizeSegments(segs, acc, allowAboveRoot) ==
  IF segs = <<>> THEN acc
  ELSE LET s == segs[1]
           rest == Tail(segs)
       IN  IF s = <<>> \/ s = Dot THEN NormalizeSegments(rest, acc, allowAboveRoot)
           ELSE IF s = DotDot
             THEN IF acc # <<>> /\ acc[Len(acc)] # DotDot
                    THEN NormalizeSegments(rest, SubSeq(acc, 1, Len(acc) - 1), allowAboveRoot)
                    ELSE IF allowAboveRoot
                           THEN NormalizeSegments(rest, Append(acc, s), allowAboveRoot)
                           ELSE NormalizeSegments(rest, acc, allowAboveRoot)
             ELSE NormalizeSegments(rest, Append(acc, s), allowAboveRoot)

\* the end of path.normalize: "." for an empty relative path, the trailing
\* separator put back, the leading one for an absolute path
FinishNormalize(body, isAbsolute, trailingSeparator) ==
  LET withDot == IF body = <<>> /\ ~isAbsolute THEN Dot ELSE body
      withSep == IF withDot # <<>> /\ trailingSeparator
                   THEN withDot \o <<Slash>> ELSE withDot
  IN  IF isAbsolute THEN <<Slash>> \o withSep ELSE withSep

\* path.normalize
PathNormalize(p) ==
  IF p = <<>> THEN Dot
  ELSE FinishNormalize(
         JoinWith(NormalizeSegments(Split(p, Slash), <<>>, p[1] # Slash), Slash),
         p[1] = Slash, p[Len(p)] = Slash)

\* path.join(a, b): the non-empty arguments joined by "/" and normalized
PathJoin(a, b) ==
  LET joined == IF a = <<>> THEN b
                ELSE IF b = <<>> THEN a
                ELSE a \o <<Slash>> \o b
  IN  IF joined = <<>> THEN Dot ELSE PathNormalize(joined)

\* the path without its trailing slashes (all of them)
RECURSIVE StripTrailingSlashes(_)
StripTrailingSlashes(p) ==
  IF p # <<>> /\ p[Len(p)] = Slash
    THEN StripTrailingSlashes(SubSeq(p, 1, Len(p) - 1))
    ELSE p

\* path.basename(p): the last portion of the path, trailing slashes ignored
PathBasename(p) ==
  LET parts == Split(StripTrailingSlashes(p), Slash)
  IN  parts[Len(parts)]

\* the directory part of a path q that has no trailing slash
DirnameOf(q) ==
  LET slashes == { i \in DOMAIN q : q[i] = Slash }
      last == CHOOSE i \in slashes : \A j \in slashes : j <= i
      d == StripTrailingSlashes(SubSeq(q, 1, last - 1))
  IN  IF q = <<>> THEN <<Slash>>
      ELSE IF slashes = {} THEN Dot
      ELSE IF d = <<>> THEN <<Slash>> ELSE d

\* path.dirname(p)
PathDirname(p) == IF p = <<>> THEN Dot ELSE DirnameOf(StripTrailingSlashes(p))

(***************************************************************************)
(* parser: shorten, extractKeywords                                        *)
(***************************************************************************)
\* shorten(text, max): the trimmed text, cut to max - 1 characters and the
\* one-character horizontal ellipsis (written "ELLIPSIS") when it is longer
\* than max
shorten(text, max) ==
  LET s == Trim(text)
  IN  IF s = <<>> THEN <<>>
      ELSE IF Len(s) <= max THEN s
      ELSE TrimEnd(Slice(s, 0, IF max - 1 > 0 THEN max - 1 ELSE 0)) \o <<"ELLIPSIS">>

STOPWORDS == {
  <<"t","h","e">>, <<"a","n","d">>, <<"t","h","a","t">>, <<"w","i","t","h">>,
  <<"t","h","i","s">>, <<"f","r","o","m">>, <<"h","a","v","e">>, <<"y","o","u","r">>,
  <<"y","o","u">>, <<"f","o","r">>, <<"a","r","e">>, <<"w","a","s">>,
  <<"w","e","r","e">>, <<"w","i","l","l">>, <<"j","u","s","t">>, <<"n","o","t">>,
  <<"b","u","t">>, <<"w","h","a","t">>, <<"w","h","e","n">>, <<"w","h","e","r","e">>,
  <<"w","h","o">>, <<"w","h","y">>, <<"h","o","w">>, <<"i","n","t","o">>,
  <<"o","n","t","o">>, <<"o","v","e","r">>, <<"u","n","d","e","r">>, <<"t","h","a","n">>,
  <<"t","h","e","n">>, <<"t","h","e","m">>, <<"t","h","e","y">>, <<"t","h","e","i","r">>,
  <<"t","h","e","r","e">>, <<"h","e","r","e">>, <<"b","e","e","n">>,
  <<"b","e","i","n","g">>, <<"c","a","n">>, <<"c","o","u","l","d">>,
  <<"s","h","o","u","l","d">>, <<"w","o","u","l","d">>, <<"a","b","o","u","t">>,
  <<"a","l","s","o">>, <<"o","n","l","y">>, <<"s","o","m","e">>, <<"m","o","r","e">>,
  <<"m","o","s","t">>, <<"m","u","c","h">>, <<"v","e","r","y">>, <<"l","i","k","e">>,
  <<"i","t","s">>, <<"i","t","s","e","l","f">>, <<"o","u","r">>, <<"o","u","t">>,
  <<"o","f","f">>, <<"b","e","c","a","u","s","e">>, <<"w","h","i","l","e">>,
  <<"w","i","t","h","i","n">>, <<"w","i","t","h","o","u","t">>,
  <<"a","c","r","o","s","s">>, <<"a","f","t","e","r">>, <<"b","e","f","o","r","e">>,
  <<"d","u","r","i","n","g">>, <<"b","e","t","w","e","e","n">>,
  <<"t","h","r","o","u","g","h">>, <<"t","h","e","s","e">>, <<"t","h","o","s","e">>,
  <<"s","u","c","h">>, <<"m","a","y">>, <<"m","i","g","h","t">>, <<"m","u","s","t">>,
  <<"s","h","a","l","l">>, <<"d","o","n","t">>, <<"d","o","e","s","n","t">>,
  <<"d","i","d","n","t">>, <<"c","a","n","t">>, <<"w","o","n","t">>, <<"i","m">>,
  <<"i","v","e">>, <<"i","d">>, <<"w","e">>, <<"u","s">>
}

\* the backtick character, which a TLA+ string literal cannot hold
Backtick == "BACKTICK"

Fence == <<Backtick, Backtick, Backtick>>

\* the smallest position k >= from where p occurs in s, 0 if none
IndexOfSeq(s, p, from) ==
  LET hits == { k \in from..Len(s) : At(s, k, p) }
  IN  IF hits = {} THEN 0 ELSE CHOOSE k \in hits : \A j \in hits : k <= j

\* text.replace(/```[\s\S]*?```/g, ' ')
RECURSIVE StripFences(_, _)
StripFences(s, i) ==
  IF i > Len(s) THEN <<>>
  ELSE IF At(s, i, Fence) /\ IndexOfSeq(s, Fence, i + 3) # 0
    THEN <<" ">> \o StripFences(s, IndexOfSeq(s, Fence, i + 3) + 3)
    ELSE <<s[i]>> \o StripFences(s, i + 1)

\* text.replace(/`[^`]*`/g, ' ')
RECURSIVE StripInlineCode(_, _)
StripInlineCode(s, i) ==
  IF i > Len(s) THEN <<>>
  ELSE IF s[i] = Backtick /\ IndexOfChar(s, Backtick, i + 1) # 0
    THEN <<" ">> \o StripInlineCode(s, IndexOfChar(s, Backtick, i + 1) + 1)
    ELSE <<s[i]>> \o StripInlineCode(s, i + 1)

\* text.replace(/\[([^\]]+)\]\([^\)]*\)/g, '$1'): a markdown link is replaced
\* by its visible text
RECURSIVE StripLinks(_, _)
StripLinks(s, i) ==
  IF i > Len(s) THEN <<>>
  ELSE LET close == IndexOfChar(s, "]", i + 1)
           paren == IF close = 0 THEN 0 ELSE IndexOfChar(s, ")", close + 2)
       IN  IF s[i] = "[" /\ close > i + 1 /\ At(s, close + 1, <<"(">>) /\ paren # 0
             THEN SubSeq(s, i + 1, close - 1) \o StripLinks(s, paren + 1)
             ELSE <<s[i]>> \o StripLinks(s, i + 1)

\* the length of the longest run of positions k >= i with ok[k]
RunLength(ok, i) ==
  LET stops == { k \in i..Len(ok) : ~ok[k] }
  IN  IF i > Len(ok) THEN 0
      ELSE IF stops = {} THEN Len(ok) - i + 1
      ELSE (CHOOSE k \in stops : \A j \in stops : k <= j) - i

\* for each position of s whether its character is not white space
NotSpaceAt(s) == [k \in DOMAIN s |-> ~IsSpace(s[k])]

\* for each position of s whether its character is white space
SpaceAt(s) == [k \in DOMAIN s |-> IsSpace(s[k])]

\* the length of the match of /https?:\/\/\S+/ at position i, 0 if none
UrlMatchLength(s, i) ==
  LET http == <<"h","t","t","p">>
      sep == <<":","/","/">>
      head == IF At(s, i, http \o <<"s">> \o sep) THEN 8
              ELSE IF At(s, i, http \o sep) THEN 7 ELSE 0
      run == IF head = 0 THEN 0 ELSE RunLength(NotSpaceAt(s), i + head)
  IN  IF head = 0 \/ run = 0 THEN 0 ELSE head + run

\* text.replace(/https?:\/\/\S+/g, ' ')
RECURSIVE StripUrls(_, _)
StripUrls(s, i) ==
  IF i > Len(s) THEN <<>>
  ELSE IF UrlMatchLength(s, i) > 0
    THEN <<" ">> \o StripUrls(s, i + UrlMatchLength(s, i))
    ELSE <<s[i]>> \o StripUrls(s, i + 1)

\* [a-z0-9_\-\s]
\* .replace(/[^a-z0-9_\-\s]/g, ' ')
BlankNonKeywordChars(s) ==
  [i \in DOMAIN s |->
     IF IsLower(s[i]) \/ IsDigit(s[i]) \/ s[i] \in {"_", "-"} \/ IsSpace(s[i])
       THEN s[i] ELSE " "]

\* s.split(/\s+/): the maximal runs of non-space characters, with an empty
\* string first (last) when s starts (ends) with white space
RECURSIVE SplitSpaces(_, _)
SplitSpaces(s, i) ==
  LET word == RunLength(NotSpaceAt(s), i)
      gap == RunLength(SpaceAt(s), i + word)
  IN  IF i + word > Len(s) THEN << SubSeq(s, i, Len(s)) >>
      ELSE << SubSeq(s, i, i + word - 1) >> \o SplitSpaces(s, i + word + gap)

MinKeywordLength == 4

MaxKeywords == 4000

\* .map(w => w.trim()).filter(w => w.length >= 4 && !STOPWORDS.has(w))
TrimmedKeywords(parts) ==
  SelectSeq([i \in DOMAIN parts |-> Trim(parts[i])],
            LAMBDA w : Len(w) >= MinKeywordLength /\ w \notin STOPWORDS)

\* the words of extractKeywords before the cap
KeywordWords(markdown) ==
  TrimmedKeywords(
    SplitSpaces(
      BlankNonKeywordChars(
        ToLowerCase(
          StripUrls(StripLinks(StripInlineCode(StripFences(markdown, 1), 1), 1), 1))),
      1))

\* new Set(words.slice(0, 4000))
CappedSet(words) ==
  Range(Slice(words, 0, IF Len(words) < MaxKeywords THEN Len(words) ELSE MaxKeywords))

\* extractKeywords(markdown)
extractKeywords(markdown) == CappedSet(KeywordWords(markdown))

(***************************************************************************)
(* parser: parseFile                                                       *)
(***************************************************************************)
FilePrefix == <<"f","i","l","e",":">>

ConceptPrefix == <<"c","o","n","c","e","p","t",":">>

TagPrefix == <<"t","a","g",":">>

EventPrefix == <<"e","v","e","n","t",":">>

\* the captures of /\[\[(.*?)\]\]/g from position i on: the text between
\* "[[" and the first "]]" after it, when no line terminator lies between
RECURSIVE WikilinkMatches(_, _)
WikilinkMatches(s, i) ==
  IF i > Len(s) THEN <<>>
  ELSE LET close == IndexOfSeq(s, <<"]","]">>, i + 2)
       IN  IF At(s, i, <<"[","[">>) /\ close # 0
              /\ \A k \in (i + 2)..(close - 1) : ~IsNewline(s[k])
             THEN << SubSeq(s, i + 2, close - 1) >> \o WikilinkMatches(s, close + 2)
             ELSE WikilinkMatches(s, i + 1)

\* the captures of /(?:^|\s)#([a-zA-Z0-9_-]+)/g from position i on, a tag
\* being the longest run of [a-zA-Z0-9_-]
RECURSIVE TagMatches(_, _)
TagMatches(s, i) ==
  IF i > Len(s) THEN <<>>
  ELSE LET hash == IF i = 1 /\ s[1] = "#" THEN 1
                   ELSE IF IsSpace(s[i]) /\ At(s, i + 1, <<"#">>) THEN i + 1
                   ELSE 0
           run == IF hash = 0 THEN 0 ELSE RunLength([k \in DOMAIN s |->
                                     \/ IsLower(s[k]) \/ IsUpper(s[k]) \/ IsDigit(s[k])
                                     \/ s[k] \in {"_", "-"}], hash + 1)
       IN  IF run > 0
             THEN << SubSeq(s, hash + 1, hash + run) >> \o TagMatches(s, hash + run + 1)
             ELSE TagMatches(s, i + 1)

\* the captures of /^##\s+(.*)$/gm from position i on: at the start of a line,
\* "##", the longest run of white space (line terminators included), and the
\* rest of the line reached
RECURSIVE HeaderMatches(_, _)
HeaderMatches(s, i) ==
  IF i > Len(s) THEN <<>>
  ELSE LET lineStart == i = 1 \/ IsNewline(s[i - 1])
           gap == RunLength(SpaceAt(s), i + 2)
           rest == RunLength([k \in DOMAIN s |-> ~IsNewline(s[k])], i + 2 + gap)
       IN  IF lineStart /\ At(s, i, <<"#","#">>) /\ gap > 0
             THEN << SubSeq(s, i + 2 + gap, i + 1 + gap + rest) >>
                  \o HeaderMatches(s, i + 2 + gap + rest)
             ELSE HeaderMatches(s, i + 1)

\* the captures of /\[[^\]]*\]\(([^)]+)\)/g from position i on
RECURSIVE MdLinkMatches(_, _)
MdLinkMatches(s, i) ==
  IF i > Len(s) THEN <<>>
  ELSE LET close == IndexOfChar(s, "]", i + 1)
           paren == IF close = 0 THEN 0 ELSE IndexOfChar(s, ")", close + 2)
       IN  IF s[i] = "[" /\ close # 0 /\ At(s, close + 1, <<"(">>) /\ paren > close + 2
             THEN << SubSeq(s, close + 2, paren - 1) >> \o MdLinkMatches(s, paren + 1)
             ELSE MdLinkMatches(s, i + 1)

\* the captures of /<([^>]+)>/g from position i on
RECURSIVE AutoLinkMatches(_, _)
AutoLinkMatches(s, i) ==
  IF i > Len(s) THEN <<>>
  ELSE LET close == IndexOfChar(s, ">", i + 1)
       IN  IF s[i] = "<" /\ close > i + 1
             THEN << SubSeq(s, i + 1, close - 1) >> \o AutoLinkMatches(s, close + 1)
             ELSE AutoLinkMatches(s, i + 1)

NonEmpty(s) == s # <<>>

\* the trimmed, non-empty captures: const x = match[1].trim(); if (!x) continue
TrimmedMatches(matches) ==
  SelectSeq([i \in DOMAIN matches |-> Trim(matches[i])], NonEmpty)

FileNode(relativePath) ==
  [ id |-> FilePrefix \o relativePath, type |-> "file", label |-> relativePath,
    labelShort |-> shorten(PathBasename(relativePath), 24),
    labelFull |-> relativePath, path |-> relativePath ]

Link(source, target, type) == [ source |-> source, target |-> target, type |-> type ]

\* what parseFile returns for the concepts, tags, headers and link targets
\* found, each list trimmed and in order of occurrence
ParseResult(relativePath, concepts, tags, headers, linkRefs, keywords) ==
  [ nodes |-> << FileNode(relativePath) >>
              \o [i \in DOMAIN concepts |->
                    [ id |-> ConceptPrefix \o concepts[i], type |-> "concept",
                      label |-> concepts[i], labelShort |-> shorten(concepts[i], 24),
                      labelFull |-> concepts[i] ]]
              \o [i \in DOMAIN tags |->
                    [ id |-> TagPrefix \o tags[i], type |-> "tag",
                      label |-> <<"#">> \o tags[i],
                      labelShort |-> shorten(<<"#">> \o tags[i], 18),
                      labelFull |-> <<"#">> \o tags[i] ]]
              \o [i \in DOMAIN headers |->
                    [ id |-> EventPrefix \o relativePath \o <<"#">> \o headers[i],
                      type |-> "event", label |-> headers[i],
                      labelShort |-> shorten(headers[i], 28), labelFull |-> headers[i],
                      source |-> relativePath ]],
    links |-> [i \in DOMAIN concepts |->
                 Link(FilePrefix \o relativePath, ConceptPrefix \o concepts[i], "contains")]
              \o [i \in DOMAIN tags |->
                    Link(FilePrefix \o relativePath, TagPrefix \o tags[i], "tagged")]
              \o [i \in DOMAIN headers |->
                    Link(FilePrefix \o relativePath,
                         EventPrefix \o relativePath \o <<"#">> \o headers[i], "header")],
    fileRefs |-> concepts \o linkRefs,
    relativePath |-> relativePath,
    keywords |-> keywords ]

\* parseFile(filePath, root) for a file that can be read: relativePath is
\* path.relative(root, filePath), the path of the file below the root
parseFile(relativePath, content) ==
  ParseResult(relativePath,
              TrimmedMatches(WikilinkMatches(content, 1)),
              TrimmedMatches(TagMatches(content, 1)),
              TrimmedMatches(HeaderMatches(content, 1)),
              TrimmedMatches(MdLinkMatches(content, 1))
                \o TrimmedMatches(AutoLinkMatches(content, 1)),
              extractKeywords(content))

(***************************************************************************)
(* JavaScript Map: a sequence of <<key, value>> in insertion order; set()  *)
(* of a key already present replaces the value where the key stands        *)
(***************************************************************************)
MapHas(m, k) == \E i \in DOMAIN m : m[i][1] = k

MapSet(m, k, v) ==
  IF MapHas(m, k) THEN [i \in DOMAIN m |-> IF m[i][1] = k THEN <<k, v>> ELSE m[i]]
  ELSE Append(m, <<k, v>>)

MapValues(m) == [i \in DOMAIN m |-> m[i][2]]

\* the value of a property the object does not have
Undefined == << "undefined" >>

\* `${x}` or String(x) for a string or undefined
TemplateText(x) == IF x = Undefined THEN <<"u","n","d","e","f","i","n","e","d">> ELSE x

\* data.relativePath, undefined for the result that stands for a failed parse
RelativePathOf(data) ==
  IF "relativePath" \in DOMAIN data THEN data.relativePath ELSE Undefined

\* data.fileRefs || []
FileRefsOf(data) == IF "fileRefs" \in DOMAIN data THEN data.fileRefs ELSE <<>>

(***************************************************************************)
(* parser: buildGraph                                                      *)
(***************************************************************************)
\* lines 186-192: nodes are kept under their id, the first one seen wins
RECURSIVE DedupNodes(_, _)
DedupNodes(nodes, nodeMap) ==
  IF nodes = <<>> THEN nodeMap
  ELSE DedupNodes(Tail(nodes),
                  IF MapHas(nodeMap, nodes[1].id) THEN nodeMap
                  ELSE MapSet(nodeMap, nodes[1].id, nodes[1]))

AllNodes(allParsed) == Flatten([i \in DOMAIN allParsed |-> allParsed[i].nodes])

\* mutant of NodeMapOf: every node is pushed, seen before or not
NodeMapKeepAll(allParsed) ==
  [i \in DOMAIN AllNodes(allParsed) |->
     << AllNodes(allParsed)[i].id, AllNodes(allParsed)[i] >>]

NodeMapOf(allParsed) == DedupNodes(AllNodes(allParsed), <<>>)

IsFileNode(n) == n.type = "file"

\* String(n.path || n.label || '') of a file node
NodePath(n) == IF n.path # <<>> THEN n.path ELSE n.label

MdExt == <<".","m","d">>

\* base.toLowerCase().endsWith('.md') ? base.slice(0, -3) : base
StemOf(base) ==
  IF EndsWith(ToLowerCase(base), MdExt) THEN Slice(base, 0, Len(base) - 3) ELSE base

\* the file nodes of the node map that have a path, in the map's order
IndexedFileNodes(nodeMap) ==
  LET HasPath(n) == IsFileNode(n) /\ NodePath(n) # <<>>
  IN  SelectSeq(MapValues(nodeMap), HasPath)

\* lines 197-212: an index over the file nodes, filled in the order of the
\* node map: keys[i] is the key of the i-th file node, and under each key
\* stands the id of the last file node with that key
IndexBy(fileNodes, keys) ==
  LET Last(k) == CHOOSE i \in DOMAIN fileNodes :
                   keys[i] = k /\ \A j \in DOMAIN fileNodes : keys[j] = k => j <= i
  IN  [k \in Range(keys) |-> fileNodes[Last(k)].id]

filePathToId(nodeMap) ==
  LET fileNodes == IndexedFileNodes(nodeMap)
  IN  IndexBy(fileNodes, [i \in DOMAIN fileNodes |-> NodePath(fileNodes[i])])

fileBasenameToId(nodeMap) ==
  LET fileNodes == IndexedFileNodes(nodeMap)
  IN  IndexBy(fileNodes, [i \in DOMAIN fileNodes |-> PathBasename(NodePath(fileNodes[i]))])

fileStemToId(nodeMap) ==
  LET fileNodes == IndexedFileNodes(nodeMap)
  IN  IndexBy(fileNodes,
              [i \in DOMAIN fileNodes |-> StemOf(PathBasename(NodePath(fileNodes[i])))])

\* /^(https?:|mailto:|tel:|data:)/i.test(ref)
IsSchemeQualified(ref) ==
  LET r == ToLowerCase(ref)
  IN  \/ StartsWith(r, <<"h","t","t","p",":">>)
      \/ StartsWith(r, <<"h","t","t","p","s",":">>)
      \/ StartsWith(r, <<"m","a","i","l","t","o",":">>)
      \/ StartsWith(r, <<"t","e","l",":">>)
      \/ StartsWith(r, <<"d","a","t","a",":">>)

\* ref.split('#')[0].split('?')[0].trim()
StripFragment(ref) == Trim(BeforeFirst(BeforeFirst(ref, "#"), "?"))

\* .replace(/^\.\//, '')
StripDotSlash(n) == IF StartsWith(n, <<".","/">>) THEN SubSeq(n, 3, Len(n)) ELSE n

\* path.normalize(path.join(fromDir, noFrag)).replace(/^\.\//, '')
NormalizedRef(relativePath, noFrag) ==
  StripDotSlash(PathNormalize(PathJoin(PathDirname(relativePath), noFrag)))

\* mutant of Candidates: the raw reference is tried before the normalised path
CandidatesRawFirst(relativePath, noFrag) ==
  << noFrag, NormalizedRef(relativePath, noFrag), PathBasename(noFrag) >>

\* line 233: the candidates, in the order they are tried
Candidates(relativePath, noFrag) ==
  << NormalizedRef(relativePath, noFrag), noFrag, PathBasename(noFrag) >>

\* no target: null
Null == << "null" >>

\* null where the other values are objects
NullObject == [ null |-> TRUE ]

\* lines 239-243: the first candidate found in the path index or, failing
\* that, in the basename index
RECURSIVE FirstCandidateHit(_, _, _)
FirstCandidateHit(candidates, byPath, byBasename) ==
  IF candidates = <<>> THEN Null
  ELSE IF candidates[1] \in DOMAIN byPath THEN byPath[candidates[1]]
  ELSE IF candidates[1] \in DOMAIN byBasename THEN byBasename[candidates[1]]
  ELSE FirstCandidateHit(Tail(candidates), byPath, byBasename)

\* lines 246-250: without a hit, the file whose stem is the stem of the reference
OrStemMatch(hit, stem, byStem) ==
  IF hit # Null THEN hit
  ELSE IF stem \in DOMAIN byStem THEN byStem[stem]
  ELSE Null

\* lines 239-250: the id the stripped reference resolves to, or null
ResolveRef(relativePath, noFrag, byPath, byBasename, byStem) ==
  OrStemMatch(FirstCandidateHit(Candidates(relativePath, noFrag), byPath, byBasename),
              StemOf(PathBasename(noFrag)), byStem)

\* lines 252-254
RefLinkTo(sourceFileId, targetId) ==
  IF targetId # Null /\ targetId # sourceFileId
    THEN << Link(sourceFileId, targetId, "ref") >>
    ELSE <<>>

\* lines 226-254 for a reference without its fragment and query
RefLinksOfStripped(relativePath, noFrag, byPath, byBasename, byStem) ==
  IF noFrag = <<>> THEN <<>>
  ELSE RefLinkTo(FilePrefix \o relativePath,
                 ResolveRef(relativePath, noFrag, byPath, byBasename, byStem))

\* lines 221-254 for a trimmed reference
RefLinksOfTrimmed(relativePath, ref, byPath, byBasename, byStem) ==
  IF ref = <<>> \/ IsSchemeQualified(ref) THEN <<>>
  ELSE RefLinksOfStripped(relativePath, StripFragment(ref), byPath, byBasename, byStem)

\* lines 219-255 for one raw reference: the ref links it adds (one or none)
RefLinksOfRef(relativePath, rawRef, byPath, byBasename, byStem) ==
  RefLinksOfTrimmed(relativePath, Trim(rawRef), byPath, byBasename, byStem)

\* lines 215-256 for one parse result
RefLinksOfFile(data, byPath, byBasename, byStem) ==
  IF RelativePathOf(data) \notin DOMAIN byPath THEN <<>>
  ELSE Flatten([i \in DOMAIN FileRefsOf(data) |->
                  RefLinksOfRef(data.relativePath, FileRefsOf(data)[i],
                                byPath, byBasename, byStem)])

\* lines 215-256: the ref links, in the order of the files and of their references
RefLinks(allParsed, nodeMap) ==
  LET byPath == filePathToId(nodeMap)
      byBasename == fileBasenameToId(nodeMap)
      byStem == fileStemToId(nodeMap)
  IN  Flatten([i \in DOMAIN allParsed |->
                 RefLinksOfFile(allParsed[i], byPath, byBasename, byStem)])

\* lines 264-273: fileId -> Set(tokenId) over the links gathered so far, the
\* files in the order of their first concept or tag link
RECURSIVE FileToTokens(_, _)
FileToTokens(links, acc) ==
  IF links = <<>> THEN acc
  ELSE LET l == links[1]
           isToken == StartsWith(l.target, ConceptPrefix) \/ StartsWith(l.target, TagPrefix)
       IN  FileToTokens(Tail(links),
             IF ~StartsWith(l.source, FilePrefix) \/ ~isToken THEN acc
             ELSE MapSet(acc, l.source,
                         (IF MapHas(acc, l.source)
                            THEN acc[CHOOSE i \in DOMAIN acc : acc[i][1] = l.source][2]
                            ELSE {})
                           \cup {l.target}))

\* lines 285-287 and 316-318: the number of elements of the smaller set that
\* the bigger set has
SharedCount(A, B) == Cardinality(A \cap B)

\* the pairs <<i, j>> with i < j <= n in the order of the nested loops
PairsInLoopOrder(n) ==
  LET PairsFrom(i) == [k \in 1..(n - i) |-> <<i, i + k>>]
  IN  Flatten([i \in 1..n |-> PairsFrom(i)])

\* lines 275-291: `${a}|${b}` -> shared, for the pairs that share a token
RECURSIVE TokenPairWeights(_, _, _)
TokenPairWeights(pairs, fileToTokens, acc) ==
  IF pairs = <<>> THEN acc
  ELSE LET a == fileToTokens[pairs[1][1]][1]
           b == fileToTokens[pairs[1][2]][1]
           shared == SharedCount(fileToTokens[pairs[1][1]][2], fileToTokens[pairs[1][2]][2])
       IN  TokenPairWeights(Tail(pairs), fileToTokens,
             IF shared > 0 THEN MapSet(acc, a \o <<"|">> \o b, shared) ELSE acc)

\* const [source, target] = key.split('|'): an element past the end of the
\* array is undefined
ArrayAt(parts, i) == IF i \in DOMAIN parts THEN parts[i] ELSE Undefined

\* lines 293-296: the links of the entries of tokenPairWeights
LinksOfWeights(weights) ==
  [i \in DOMAIN weights |->
     [ source |-> ArrayAt(Split(weights[i][1], "|"), 1),
       target |-> ArrayAt(Split(weights[i][1], "|"), 2),
       type |-> "related", weight |-> weights[i][2], via |-> "tags" ]]

\* lines 275-296 for the map fileToTokens
TagRelatedLinksOf(fileToTokens) ==
  LinksOfWeights(TokenPairWeights(PairsInLoopOrder(Len(fileToTokens)), fileToTokens, <<>>))

\* lines 261-296: the related links of the shared concepts and tags
TagRelatedLinks(links) == TagRelatedLinksOf(FileToTokens(links, <<>>))

\* lines 300-304: fileId -> keyword set, for the results that have keywords
RECURSIVE FileToKeywords(_, _)
FileToKeywords(allParsed, acc) ==
  IF allParsed = <<>> THEN acc
  ELSE FileToKeywords(Tail(allParsed),
         IF "keywords" \in DOMAIN allParsed[1] /\ allParsed[1].keywords # {}
           THEN MapSet(acc, FilePrefix \o TemplateText(RelativePathOf(allParsed[1])),
                       allParsed[1].keywords)
           ELSE acc)

MinShared == 8

\* the threshold 0.03 as the fraction JaccardMinNum / JaccardMinDen
JaccardMinNum == 3

JaccardMinDen == 100

MaxSimLinks == 120

\* mutant of SimLinkOfCounts: two shared keywords are enough
SimLinkOfTwoShared(a, b, shared, union) ==
  IF shared < 2 THEN <<>>
  ELSE IF union = 0 \/ shared * JaccardMinDen < JaccardMinNum * union THEN <<>>
  ELSE << [ source |-> a, target |-> b, type |-> "related", weight |-> shared,
            score |-> <<shared, union>>, via |-> "text" ] >>

\* lines 320-326 for a pair with its shared count and the size of its union
SimLinkOfCounts(a, b, shared, union) ==
  IF shared < MinShared THEN <<>>
  ELSE IF union = 0 \/ shared * JaccardMinDen < JaccardMinNum * union THEN <<>>
  ELSE << [ source |-> a, target |-> b, type |-> "related", weight |-> shared,
            score |-> <<shared, union>>, via |-> "text" ] >>

\* lines 316-326 for one pair: the similarity link, if the pair passes the
\* thresholds. The score shared / union is kept as the fraction <<shared,
\* union>>: shared and union are below 2^13, so the double the code computes
\* is below 0.03 exactly when the fraction is, and two doubles are equal
\* exactly when the fractions are
SimLinkOfPair(a, A, b, B) ==
  SimLinkOfCounts(a, b, SharedCount(A, B),
                  Cardinality(A) + Cardinality(B) - SharedCount(A, B))

\* lines 306-328 for the map fileToKeywords, in the order of the nested loops
SimLinksOf(fileToKeywords) ==
  LET pairs == PairsInLoopOrder(Len(fileToKeywords))
  IN
  Flatten([k \in DOMAIN pairs |->
             SimLinkOfPair(fileToKeywords[pairs[k][1]][1], fileToKeywords[pairs[k][1]][2],
                           fileToKeywords[pairs[k][2]][1], fileToKeywords[pairs[k][2]][2])])

\* lines 300-328: the similarity links in the order of the nested loops
SimLinks(allParsed) == SimLinksOf(FileToKeywords(allParsed, <<>>))

\* y.score - x.score < 0 for the fractions x = <<a, b>>, y = <<c, d>>
ScoreLess(y, x) == y[1] * x[2] < x[1] * y[2]

\* the number of elements a stable sort puts before the i-th: those the
\* comparator puts before it and, of those it orders neither way, the earlier
Ranks(n, before) ==
  [i \in 1..n |->
     Cardinality({ j \in 1..n :
                     j # i /\ (before[j][i] \/ (~before[i][j] /\ j < i)) })]

\* the element whose rank is k
ByRank(seq, ranks) ==
  [k \in DOMAIN seq |-> seq[CHOOSE i \in DOMAIN ranks : ranks[i] = k - 1]]

\* Array.prototype.sort with a comparator, before[i][j] telling whether the
\* comparator puts seq[i] before seq[j]: a stable sort, so of two elements
\* neither of which goes before the other the earlier one stays first
SortBy(seq, before) == ByRank(seq, SubSeq(Ranks(Len(seq), before), 1, Len(seq)))

\* simLinks.sort((x, y) => (y.score - x.score) || (y.weight - x.weight))
SortedSimLinks(simLinks) ==
  LET \* the comparator is negative: x goes before y
      Before(x, y) ==
        \/ ScoreLess(y.score, x.score)
        \/ /\ ~ScoreLess(x.score, y.score) /\ ~ScoreLess(y.score, x.score)
           /\ y.weight < x.weight
  IN  SortBy(simLinks, [i \in DOMAIN simLinks |-> [j \in DOMAIN simLinks |->
                          Before(simLinks[i], simLinks[j])]])

\* sorted.slice(0, n)
Take(sorted, n) == Slice(sorted, 0, IF Len(sorted) < n THEN Len(sorted) ELSE n)

\* mutant of KeptSimLinks: the first 120 in loop order, without the sort
KeptUnsorted(simLinks) == Take(simLinks, MaxSimLinks)

\* lines 330-332: simLinks.sort(...); simLinks.slice(0, 120)
KeptSimLinks(simLinks) == Take(SortedSimLinks(simLinks), MaxSimLinks)

\* the characters in the order String.prototype.localeCompare puts them
\* (the root collation): punctuation, then digits, then letters; a letter's
\* case only decides between strings that are otherwise equal
CollationChars ==
  <<"_", "-", ".", "/", "|", "0", "1", "2", "3", "4", "5", "6", "7", "8", "9">> \o LowerChars

CollationRank(c) ==
  LET lc == LowerChar(c)
  IN  IF \E i \in DOMAIN CollationChars : CollationChars[i] = lc
        THEN CHOOSE i \in DOMAIN CollationChars : CollationChars[i] = lc
        ELSE 0

\* lexicographic order of two sequences of numbers
RECURSIVE LexLess(_, _)
LexLess(x, y) ==
  IF y = <<>> THEN FALSE
  ELSE IF x = <<>> THEN TRUE
  ELSE IF x[1] # y[1] THEN x[1] < y[1]
  ELSE LexLess(Tail(x), Tail(y))

\* a.localeCompare(b) < 0
LocaleLess(a, b) ==
  LET pa == [i \in DOMAIN a |-> CollationRank(a[i])]
      pb == [i \in DOMAIN b |-> CollationRank(b[i])]
      ca == [i \in DOMAIN a |-> IF IsUpper(a[i]) THEN 1 ELSE 0]
      cb == [i \in DOMAIN b |-> IF IsUpper(b[i]) THEN 1 ELSE 0]
  IN  IF pa # pb THEN LexLess(pa, pb) ELSE LexLess(ca, cb)

\* n.type === 'file' && /^\d{4}-\d{2}-\d{2}\.md$/.test(path.basename(String(n.path)))
IsDailyLog(n) ==
  /\ IsFileNode(n)
  /\ LET name == PathBasename(n.path)
     IN  /\ Len(name) = 13
         /\ \A i \in {1, 2, 3, 4, 6, 7, 9, 10} : IsDigit(name[i])
         /\ name[5] = "-" /\ name[8] = "-"
         /\ SubSeq(name, 11, 13) = MdExt

\* .sort((a, b) => String(a.label).localeCompare(String(b.label)))
SortedByLabel(logs) ==
  SortBy(logs, [i \in DOMAIN logs |-> [j \in DOMAIN logs |->
                  LocaleLess(logs[i].label, logs[j].label)]])

\* lines 336-340: the daily logs, sorted by label
DailyLogs(nodeMap) == SortedByLabel(SelectSeq(MapValues(nodeMap), IsDailyLog))

\* lines 342-348: each daily log linked to the next one
ChainLinks(dailyLogs) ==
  [i \in 1..(Len(dailyLogs) - 1) |->
     Link(dailyLogs[i].id, dailyLogs[i + 1].id, "timeline")]

TimelineLinks(nodeMap) == ChainLinks(DailyLogs(nodeMap))

\* lines 258-353: the links gathered so far, then the derived ones
WithDerivedLinks(allParsed, nodeMap, links) ==
  [ nodes |-> MapValues(nodeMap),
    links |-> links \o TagRelatedLinks(links) \o KeptSimLinks(SimLinks(allParsed))
                \o TimelineLinks(nodeMap) ]

\* lines 196-353 for the node map
GraphOfNodeMap(allParsed, nodeMap) ==
  WithDerivedLinks(allParsed, nodeMap,
                   Flatten([i \in DOMAIN allParsed |-> allParsed[i].links])
                     \o RefLinks(allParsed, nodeMap))

\* buildGraph(allParsed)
buildGraph(allParsed) == GraphOfNodeMap(allParsed, NodeMapOf(allParsed))

(***************************************************************************)
(* The build pipeline of getGraph (server/index.js lines 27-37) on its     *)
(* own: the discovered files are parsed, a parse that throws gives the     *)
(* empty result, and the results are assembled                             *)
(***************************************************************************)
VARIABLES
  files,      \* the discovered files in discovery order: [path, content, readable]
  allParsed,  \* the per-file parse results, in the same order
  graph,      \* the assembled graph, null before assembly
  pc,         \* "discovered", "parsed" or "built" ("idle": no pipeline of its own)
  \* extractKeywords (parser) on its own
  markdown,   \* its argument
  words,      \* the array words of lines 26-31
  keywords,   \* the set it returns, empty before
  \* the server (server/index.js)
  root,          \* SIGNAL_GRAPH_ROOT, line 10
  disk,          \* the file system: absolute path -> content of the files there are
  clock,         \* Date.now()
  cachedGraph,   \* line 16
  lastParseTime, \* line 17
  pending,       \* the getGraph calls suspended in await discoverFiles: the time they
                 \* took, whether glob has listed the files, and the list
  reply,         \* the last response sent
  unserved       \* history: a PUT or DELETE has succeeded and no GET /api/graph
                 \* has arrived since

pipelineVars == << files, allParsed, graph, pc, markdown, words, keywords >>

serverVars == << root, disk, clock, cachedGraph, lastParseTime, pending, reply, unserved >>

vars ==
  << files, allParsed, graph, pc, markdown, words, keywords,
     root, disk, clock, cachedGraph, lastParseTime, pending, reply, unserved >>

\* mutant of ParseOrEmpty: the catch keeps a node for the file it could not read
ParseOrFileNode(f) ==
  IF f.readable THEN parseFile(f.path, f.content)
  ELSE [ nodes |-> << FileNode(f.path) >>, links |-> <<>> ]

\* lines 28-35 of the server for one file: fs.readFileSync throws for a file
\* that cannot be read
ParseOrEmpty(f) ==
  IF f.readable THEN parseFile(f.path, f.content) ELSE [ nodes |-> <<>>, links |-> <<>> ]

ParseAll(fs) == [i \in DOMAIN fs |-> ParseOrEmpty(fs[i])]

\* files.map(f => { try { return parseFile(...) } catch { ... } })
ParseFiles ==
  /\ pc = "discovered"
  /\ allParsed' = ParseAll(files)
  /\ pc' = "parsed"
  /\ UNCHANGED << files, graph, markdown, words, keywords >>
  /\ UNCHANGED serverVars

\* buildGraph(allParsed)
Assemble ==
  /\ pc = "parsed"
  /\ graph' = buildGraph(allParsed)
  /\ pc' = "built"
  /\ UNCHANGED << files, allParsed, markdown, words, keywords >>
  /\ UNCHANGED serverVars

\* the sequences of 1..maxLen distinct elements of S
DistinctSeqs(S, maxLen) ==
  { s \in UNION { [1..n -> S] : n \in 1..maxLen } :
      \A i, j \in DOMAIN s : i # j => s[i] # s[j] }

\* a discovery result: distinct paths in any order, each with a content and
\* readable or not
Discoveries(Paths, Contents, Readable, maxLen) ==
  UNION { { [i \in DOMAIN ps |-> [path |-> ps[i], content |-> cs[i], readable |-> rs[i]]] :
              cs \in [DOMAIN ps -> Contents], rs \in [DOMAIN ps -> Readable] } :
          ps \in DistinctSeqs(Paths, maxLen) }

\* the server before any request, with nothing on the disk
ServerAtRest ==
  /\ root = <<Slash>>
  /\ disk = <<>>
  /\ clock = 0
  /\ cachedGraph = NullObject
  /\ lastParseTime = 0
  /\ pending = <<>>
  /\ reply = NullObject
  /\ unserved = FALSE

InitPipeline(Inputs) ==
  /\ ServerAtRest
  /\ files \in Inputs
  /\ allParsed = <<>>
  /\ graph = NullObject
  /\ pc = "discovered"
  /\ markdown = <<>>
  /\ words = <<>>
  /\ keywords = {}

NextPipeline == ParseFiles \/ Assemble

(***************************************************************************)
(* Corpus of wikilinks and tags                                            *)
(***************************************************************************)
MaxFiles == 2

PathMemory == <<"M","E","M","O","R","Y",".","m","d">>

PathA == <<"m","e","m","o","r","y","/","a",".","m","d">>

\* up to MaxFiles files, readable or not, of three paths and five contents
SpecWiki ==
  InitPipeline(Discoveries(
      { PathMemory, PathA, <<"m","e","m","o","r","y","/","a","|","b",".","m","d">> },
      { <<"[","[","X","]","]"," ","#","t"," ","[","[","X","]","]">>, <<"[","["," ","X"," ","]","]","\n","#","#"," ","H","\n","#","u">>, <<"[","[","Y","]","]"," ","[","[","[","X","]","]"," ","#","t">>, <<"[","["," ","]","]"," ","[","[","X","\n","]","]"," ","[","[","Y","]","]">>, <<"#","u"," ","#","t"," ","x">> },
      {TRUE, FALSE}, MaxFiles))
    /\ [][NextPipeline]_vars

(***************************************************************************)
(* Properties of the corpus of wikilinks and tags                          *)
(***************************************************************************)
IsBuilt == pc = "built"

ReadableFiles == { i \in DOMAIN files : files[i].readable }

\* position i of text s opens a wikilink of its own: every "[[" before it is
\* closed by a "]]" or cut by a line end before i
OpensWikilink(s, i) ==
  /\ At(s, i, <<"[","[">>)
  /\ \A j \in 1..(i - 1) :
       At(s, j, <<"[","[">>) =>
         \/ \E m \in (j + 2)..(i - 2) : At(s, m, <<"]","]">>)
         \/ \E m \in (j + 2)..(i - 1) : IsNewline(s[m])

\* the texts X of the wikilinks [[X]] of s: between an opening "[[" and the
\* next "]]" on the same line, trimmed, not empty
WikilinkTexts(s) ==
  { Trim(SubSeq(s, i + 2, k - 1)) :
      <<i, k>> \in { p \in (DOMAIN s) \X (DOMAIN s) :
                       /\ OpensWikilink(s, p[1])
                       /\ p[2] >= p[1] + 2
                       /\ At(s, p[2], <<"]","]">>)
                       /\ \A m \in (p[1] + 2)..(p[2] - 1) :
                            ~At(s, m, <<"]","]">>) /\ ~IsNewline(s[m])
                       /\ Trim(SubSeq(s, p[1] + 2, p[2] - 1)) # <<>> } }

NodesWithId(g, id) == { n \in DOMAIN g.nodes : g.nodes[n].id = id }

\* C1: the graph has no two nodes with the same id; for every file and every
\* wikilink [[X]] of its content (X trimmed, not empty) the graph has exactly
\* one node concept:X and a contains edge from the file's node to it.
C1_UniqueNodes ==
  IsBuilt =>
    /\ \A m, n \in DOMAIN graph.nodes : m # n => graph.nodes[m].id # graph.nodes[n].id
    /\ \A f \in ReadableFiles : \A X \in WikilinkTexts(files[f].content) :
         /\ Cardinality(NodesWithId(graph, ConceptPrefix \o X)) = 1
         /\ \E k \in DOMAIN graph.links :
              graph.links[k] = Link(FilePrefix \o files[f].path, ConceptPrefix \o X, "contains")

\* C1 witness: two files mention the same X, one of them twice, and the graph
\* holds the one concept node
C1_Witness ==
  /\ IsBuilt
  /\ \E f, g \in ReadableFiles : \E X \in WikilinkTexts(files[f].content) :
       /\ f # g
       /\ X \in WikilinkTexts(files[g].content)
       /\ Len(SelectSeq(allParsed[f].fileRefs, LAMBDA r : r = X)) >= 2
       /\ Cardinality(NodesWithId(graph, ConceptPrefix \o X)) = 1

\* the files that could be read, in discovery order
RemainingFiles == SelectSeq(files, LAMBDA f : f.readable)

LinkMentions(l, id) == l.source = id \/ l.target = id

\* C9: when parseFile throws for some of the discovered files the graph is
\* still built, and it is the graph built from the remaining files alone: no
\* node and no edge refers to a failed file.
C9_FailedParseSkipped ==
  IsBuilt =>
    /\ graph = buildGraph([i \in DOMAIN RemainingFiles |->
                             parseFile(RemainingFiles[i].path, RemainingFiles[i].content)])
    /\ \A f \in DOMAIN files : ~files[f].readable =>
         /\ NodesWithId(graph, FilePrefix \o files[f].path) = {}
         /\ \A k \in DOMAIN graph.links :
              ~LinkMentions(graph.links[k], FilePrefix \o files[f].path)

\* C9 witness: one file failed, another was parsed and gave nodes and edges
C9_Witness ==
  /\ IsBuilt
  /\ \E f \in DOMAIN files : ~files[f].readable
  /\ ReadableFiles # {}
  /\ Len(graph.nodes) >= 2
  /\ graph.links # <<>>

\* the concept and tag ids the parse result of file i links to
TokenIdsOf(i) ==
  { allParsed[i].links[k].target :
      k \in { k \in DOMAIN allParsed[i].links :
                allParsed[i].links[k].type \in {"contains", "tagged"} } }

\* the shared-token related edges between the file nodes a and b
TagEdgesBetween(a, b) ==
  { k \in DOMAIN graph.links :
      /\ graph.links[k].type = "related"
      /\ graph.links[k].via = "tags"
      /\ \/ (graph.links[k].source = a /\ graph.links[k].target = b)
         \/ (graph.links[k].source = b /\ graph.links[k].target = a) }

\* C5: for every two distinct files there is exactly one shared-token related
\* edge between their file nodes if they link to a common concept or tag, its
\* weight the number of common concepts and tags, and none otherwise.
C5_SharedTokenEdges ==
  IsBuilt =>
    \A i, j \in ReadableFiles : i < j =>
      LET common == TokenIdsOf(i) \cap TokenIdsOf(j)
          edges == TagEdgesBetween(FilePrefix \o files[i].path, FilePrefix \o files[j].path)
      IN  IF common = {} THEN edges = {}
          ELSE /\ Cardinality(edges) = 1
               /\ \A k \in edges : graph.links[k].weight = Cardinality(common)

(***************************************************************************)
(* Corpus of file references                                               *)
(***************************************************************************)
MaxRefFiles == 3

PathB == <<"m","e","m","o","r","y","/","b",".","m","d">>

\* up to MaxRefFiles files, two of them with the same basename, holding
\* links and autolinks
SpecRefs ==
  InitPipeline(Discoveries(
      { PathMemory, PathA, PathB, <<"m","e","m","o","r","y","/","z","/","b",".","m","d">> },
      { <<"[","l","]","(","b",".","m","d",")">>,
        <<"[","l","]","(",".","/","m","e","m","o","r","y","/","b",".","m","d",")"," ","<","m","e","m","o","r","y","/","b",".","m","d",">">>,
        <<"<","x","/","b",".","m","d","#","h",">"," ","[","l","]","(","b",")">>,
        <<"<","h","t","t","p",":","/","/","e","/","b",".","m","d",">"," ","[","m","]","(","#","t","o","p",")">>,
        <<"[","l","]","(",".","/","s","u","b","/",".",".","/","M","E","M","O","R","Y",".","m","d",")"," ","[","m","]","(","M","E","M","O","R","Y",".","m","d",")">> },
      {TRUE}, MaxRefFiles))
    /\ [][NextPipeline]_vars

(***************************************************************************)
(* Properties of the corpus of file references                             *)
(***************************************************************************)
\* the orderings of the parse results
Reorderings(parsed) ==
  { [i \in DOMAIN parsed |-> parsed[p[i]]] : p \in Permutations(DOMAIN parsed) }

\* how often the graph g has the edge e
EdgeCount(g, e) == Cardinality({ k \in DOMAIN g.links : g.links[k] = e })

SameGraph(g, h) ==
  /\ Range(g.nodes) = Range(h.nodes)
  /\ Range(g.links) = Range(h.links)
  /\ \A e \in Range(g.links) : EdgeCount(g, e) = EdgeCount(h, e)

\* C2: for any two orderings of the same parse results buildGraph returns the
\* same node set and the same multiset of edges (source, target, type, weight
\* and score of every edge).
C2_OrderIndependent ==
  IsBuilt => \A reordered \in Reorderings(allParsed) : SameGraph(buildGraph(reordered), graph)

\* the raw references of file i that are resolved: not scheme-qualified and
\* not empty once fragment and query are stripped
ResolvedRefs(i) ==
  SelectSeq(FileRefsOf(allParsed[i]),
            LAMBDA r : Trim(r) # <<>> /\ ~IsSchemeQualified(Trim(r))
                         /\ StripFragment(Trim(r)) # <<>>)

\* the positions of the discovered files whose path, basename or stem is c
FilesWithPath(c) == { i \in DOMAIN files : files[i].path = c }

FilesWithBasename(c) == { i \in DOMAIN files : PathBasename(files[i].path) = c }

FilesWithStem(c) == { i \in DOMAIN files : StemOf(PathBasename(files[i].path)) = c }

\* the id of the file discovered last among those at the positions S
LastFileId(S) == FilePrefix \o files[CHOOSE i \in S : \A j \in S : j <= i].path

\* the look-ups of the stripped reference s made from the file at path from,
\* in the order they are tried: the sets of files each one finds
Lookups(from, s) ==
  << FilesWithPath(NormalizedRef(from, s)), FilesWithBasename(NormalizedRef(from, s)),
     FilesWithPath(s), FilesWithBasename(s),
     FilesWithPath(PathBasename(s)), FilesWithBasename(PathBasename(s)),
     FilesWithStem(StemOf(PathBasename(s))) >>

\* the ref edge expected of the look-ups: to the file of the first look-up
\* that finds one, unless that is the referencing file itself
ExpectedRefEdge(from, lookups) ==
  LET hits == { n \in DOMAIN lookups : lookups[n] # {} }
      first == CHOOSE n \in hits : \A m \in hits : n <= m
  IN  IF hits = {} \/ LastFileId(lookups[first]) = FilePrefix \o from THEN <<>>
      ELSE << Link(FilePrefix \o from, LastFileId(lookups[first]), "ref") >>

ExpectedRefEdges ==
  Flatten([i \in DOMAIN files |->
    Flatten([k \in DOMAIN ResolvedRefs(i) |->
      ExpectedRefEdge(files[i].path,
                      Lookups(files[i].path, StripFragment(Trim(ResolvedRefs(i)[k]))))])])

RefEdges(g) == SelectSeq(g.links, LAMBDA l : l.type = "ref")

\* a resolved reference of file i whose normalised path is the path of
\* another known file
RefsToKnownPath(i) ==
  { k \in DOMAIN ResolvedRefs(i) :
      /\ FilesWithPath(NormalizedRef(files[i].path, StripFragment(Trim(ResolvedRefs(i)[k])))) # {}
      /\ NormalizedRef(files[i].path, StripFragment(Trim(ResolvedRefs(i)[k]))) # files[i].path }

\* C3: the ref edges of the graph are, file by file and reference by
\* reference, the edges to the first hit among: normalised path, raw stripped
\* reference, bare basename (each in the path index, then the basename
\* index), then the stem; a reference whose normalised path is the path of a
\* known file has its edge to that file, whatever other file shares the
\* basename or stem.
C3_FirstHitOrder ==
  IsBuilt =>
    /\ RefEdges(graph) = ExpectedRefEdges
    /\ \A i \in DOMAIN files : \A k \in RefsToKnownPath(i) :
         \E e \in DOMAIN graph.links :
           graph.links[e] =
             Link(FilePrefix \o files[i].path,
                  FilePrefix \o NormalizedRef(files[i].path,
                                              StripFragment(Trim(ResolvedRefs(i)[k]))),
                  "ref")

\* C3 witness: a reference resolved by its normalised path to a file that
\* shares its basename with a file discovered later, and a reference resolved
\* only by its stem
C3_Witness ==
  /\ IsBuilt
  /\ \E i \in DOMAIN files : \E k \in RefsToKnownPath(i) : \E j \in DOMAIN files :
       /\ files[j].path # NormalizedRef(files[i].path, StripFragment(Trim(ResolvedRefs(i)[k])))
       /\ PathBasename(files[j].path) = PathBasename(StripFragment(Trim(ResolvedRefs(i)[k])))
       /\ \A h \in FilesWithPath(NormalizedRef(files[i].path,
                                               StripFragment(Trim(ResolvedRefs(i)[k])))) : h < j
  /\ \E i \in DOMAIN files : \E k \in DOMAIN ResolvedRefs(i) :
       LET lookups == Lookups(files[i].path, StripFragment(Trim(ResolvedRefs(i)[k])))
       IN  /\ \A n \in 1..6 : lookups[n] = {}
           /\ lookups[7] # {}
           /\ ExpectedRefEdge(files[i].path, lookups) # <<>>
  /\ RefEdges(graph) # <<>>

\* the reference strings tell the same path: they have the same normal form
SameNormalForm(r, s) == PathNormalize(r) = PathNormalize(s)

\* the ref edge the graph gets for the raw reference r of the file at path from
RefEdgeFor(from, r) ==
  RefLinksOfRef(from, r, filePathToId(NodeMapOf(allParsed)),
                fileBasenameToId(NodeMapOf(allParsed)), fileStemToId(NodeMapOf(allParsed)))

\* C4: two references of one file that differ only by redundant "./" and
\* "dir/.." segments resolve to the same target file node, or both to none.
C4_NormalisationIdempotent ==
  IsBuilt =>
    \A i \in DOMAIN files : \A k, m \in DOMAIN ResolvedRefs(i) :
      SameNormalForm(StripFragment(Trim(ResolvedRefs(i)[k])),
                     StripFragment(Trim(ResolvedRefs(i)[m])))
        => RefEdgeFor(files[i].path, ResolvedRefs(i)[k])
             = RefEdgeFor(files[i].path, ResolvedRefs(i)[m])

(***************************************************************************)
(* buildGraph over parse results with given keyword sets                   *)
(***************************************************************************)
\* the parse results are given, buildGraph is the one step
InitBuild(Inputs) ==
  /\ ServerAtRest
  /\ files = <<>>
  /\ allParsed \in Inputs
  /\ graph = NullObject
  /\ pc = "parsed"
  /\ markdown = <<>>
  /\ words = <<>>
  /\ keywords = {}

NextBuild == Assemble

\* parse results of files at distinct paths, in any order, each with a list
\* of tags and a keyword set
ParseResults(Paths, TagLists, KeywordSets, maxLen) ==
  UNION { { [i \in DOMAIN ps |-> ParseResult(ps[i], <<>>, ts[i], <<>>, <<>>, ks[i])] :
              ts \in [DOMAIN ps -> TagLists], ks \in [DOMAIN ps -> KeywordSets] } :
          ps \in DistinctSeqs(Paths, maxLen) }

MaxSimFiles == 3

\* up to MaxSimFiles files with keyword sets, the keywords named by numbers:
\* against 1..8 the sets share 7, 8, 8 and 8 keywords with unions of 8, 266,
\* 267 and 300; 1..9 and 1..300 share 9 of 300, which is 0.03
SpecSim ==
  InitBuild(ParseResults({ PathMemory, PathA, PathB }, { <<>>, << <<"t">> >> },
                         { 1..7, 1..8, 1..9, 1..266, 1..267, 1..300 }, MaxSimFiles))
    /\ [][NextBuild]_vars

(***************************************************************************)
(* Properties of the similarity edges                                      *)
(***************************************************************************)
TextEdges(g) == SelectSeq(g.links, LAMBDA l : l.type = "related" /\ l.via = "text")

TextEdgesBetween(a, b) ==
  { k \in DOMAIN TextEdges(graph) :
      \/ (TextEdges(graph)[k].source = a /\ TextEdges(graph)[k].target = b)
      \/ (TextEdges(graph)[k].source = b /\ TextEdges(graph)[k].target = a) }

\* the keywords the parse results i and j have in common
SharedKeywords(i, j) == allParsed[i].keywords \cap allParsed[j].keywords

AllKeywords(i, j) == allParsed[i].keywords \cup allParsed[j].keywords

FileIdOf(i) == FilePrefix \o allParsed[i].relativePath

\* C6: every similarity edge joins two distinct files whose keyword sets
\* share at least 8 keywords and have a Jaccard score of at least 0.03, its
\* weight is the number of shared keywords; two files that share fewer than 8
\* keywords have no similarity edge, shared tags or not.
C6_SimilarityThresholds ==
  IsBuilt =>
    /\ \A k \in DOMAIN TextEdges(graph) :
         \E i, j \in DOMAIN allParsed :
           /\ i # j
           /\ TextEdges(graph)[k].source = FileIdOf(i)
           /\ TextEdges(graph)[k].target = FileIdOf(j)
           /\ FileIdOf(i) # FileIdOf(j)
           /\ Cardinality(SharedKeywords(i, j)) >= 8
           /\ 100 * Cardinality(SharedKeywords(i, j)) >= 3 * Cardinality(AllKeywords(i, j))
           /\ TextEdges(graph)[k].weight = Cardinality(SharedKeywords(i, j))
           /\ TextEdges(graph)[k].score
                = << Cardinality(SharedKeywords(i, j)), Cardinality(AllKeywords(i, j)) >>
    /\ \A i, j \in DOMAIN allParsed :
         (i # j /\ Cardinality(SharedKeywords(i, j)) < 8)
           => TextEdgesBetween(FileIdOf(i), FileIdOf(j)) = {}

\* C6 witness: of three files one pair has a similarity edge, another shares
\* seven keywords and a tag and has a tag edge but no similarity edge
C6_Witness ==
  /\ IsBuilt
  /\ \E i, j, m \in DOMAIN allParsed :
       /\ TextEdgesBetween(FileIdOf(i), FileIdOf(j)) # {}
       /\ Cardinality(SharedKeywords(i, m)) = 7
       /\ TagEdgesBetween(FileIdOf(i), FileIdOf(m)) # {}
       /\ TextEdgesBetween(FileIdOf(i), FileIdOf(m)) = {}

(***************************************************************************)
(* buildGraph over many files with similar keywords                        *)
(***************************************************************************)
MaxCapFiles == 18

MaxStride == 4

MaxOffset == 4

Digits == <<"0","1","2","3","4","5","6","7","8","9">>

\* the corpus of count files (fewer than 100), the n-th with the first 8 to
\* 24 of the keywords 1, 2, ..., the number set by stride and offset
CapParsed(count, stride, offset) ==
  [n \in 1..count |->
     ParseResult(<<"m","e","m","o","r","y","/","f">> \o << Digits[(n \div 10) + 1], Digits[(n % 10) + 1] >> \o MdExt,
                 <<>>, <<>>, <<>>, <<>>, 1..(8 + ((stride * n + offset) % 17)))]

\* 16 files make 120 pairs, 17 files 136, 18 files 153
SpecCap ==
  InitBuild({ CapParsed(count, stride, offset) :
                count \in (MaxCapFiles - 3)..MaxCapFiles, stride \in 1..MaxStride,
                offset \in 0..MaxOffset })
    /\ [][NextBuild]_vars

(***************************************************************************)
(* Properties of the cap on the similarity edges                           *)
(***************************************************************************)
\* the pairs of files that pass the thresholds
PassingPairs ==
  { p \in (DOMAIN allParsed) \X (DOMAIN allParsed) :
      /\ p[1] < p[2]
      /\ Cardinality(SharedKeywords(p[1], p[2])) >= 8
      /\ 100 * Cardinality(SharedKeywords(p[1], p[2]))
           >= 3 * Cardinality(AllKeywords(p[1], p[2])) }

\* the pairs among passing that have their similarity edge among edges
KeptAmong(passing, edges) ==
  { p \in passing :
      \E k \in DOMAIN edges :
        /\ edges[k].source = FileIdOf(p[1])
        /\ edges[k].target = FileIdOf(p[2])
        /\ edges[k].weight = Cardinality(SharedKeywords(p[1], p[2])) }

\* pair p ranks strictly higher than pair q: a higher Jaccard score or, the
\* scores equal, more shared keywords
RanksHigher(p, q) ==
  \/ Cardinality(SharedKeywords(p[1], p[2])) * Cardinality(AllKeywords(q[1], q[2]))
       > Cardinality(SharedKeywords(q[1], q[2])) * Cardinality(AllKeywords(p[1], p[2]))
  \/ /\ Cardinality(SharedKeywords(p[1], p[2])) * Cardinality(AllKeywords(q[1], q[2]))
          = Cardinality(SharedKeywords(q[1], q[2])) * Cardinality(AllKeywords(p[1], p[2]))
     /\ Cardinality(SharedKeywords(p[1], p[2])) > Cardinality(SharedKeywords(q[1], q[2]))

\* kept are the top 120 of passing, or all of them
IsTopOf(kept, passing) ==
  IF Cardinality(passing) > 120
    THEN /\ Cardinality(kept) = 120
         /\ \A d \in passing \ kept : \A k \in kept : ~RanksHigher(d, k)
    ELSE kept = passing

\* the edges are those of the top passing pairs, one each
AreTopEdges(edges, kept, passing) ==
  /\ Len(edges) <= 120
  /\ Len(edges) = Cardinality(kept)
  /\ IsTopOf(kept, passing)

\* C7: the graph has at most 120 similarity edges, each of its own passing
\* pair; when more than 120 pairs pass the thresholds exactly 120 are kept
\* and no dropped pair ranks strictly higher than a kept one by (score,
\* shared count); when 120 or fewer pass, all are kept.
C7_TopSimilarityEdges ==
  IsBuilt =>
    AreTopEdges(TextEdges(graph), KeptAmong(PassingPairs, TextEdges(graph)), PassingPairs)

\* a pair of kept ranks strictly higher than a pair of passing that is not kept
SomeDroppedLower(kept, passing) ==
  /\ Cardinality(passing) > 120
  /\ Cardinality(kept) = 120
  /\ \E d \in passing \ kept : \E k \in kept : RanksHigher(k, d)


\* C7 witness: 136 or more pairs pass, 120 are kept, and a dropped pair ranks
\* strictly lower than a kept one
C7_Witness ==
  IsBuilt /\ SomeDroppedLower(KeptAmong(PassingPairs, TextEdges(graph)), PassingPairs)

(***************************************************************************)
(* Corpus of daily logs                                                    *)
(***************************************************************************)
MaxLogFiles == 3

\* up to MaxLogFiles files, daily logs in the memory directory and below it
SpecLog ==
  InitPipeline(Discoveries(
      { PathMemory, <<"m","e","m","o","r","y","/","2","0","2","6","-","0","1","-","0","2",".","m","d">>, <<"m","e","m","o","r","y","/","2","0","2","6","-","0","1","-","1","0",".","m","d">>,
        <<"m","e","m","o","r","y","/","a","/","2","0","2","6","-","0","5","-","0","1",".","m","d">>, <<"m","e","m","o","r","y","/","b","/","2","0","2","6","-","0","1","-","0","1",".","m","d">> },
      { <<"x">>, <<"#","#"," ","H">> },
      {TRUE}, MaxLogFiles))
    /\ [][NextPipeline]_vars

(***************************************************************************)
(* Properties of the timeline                                              *)
(***************************************************************************)
\* the characters of the paths in the order of their character codes
CodeOrder ==
  <<"-", ".", "/", "0", "1", "2", "3", "4", "5", "6", "7", "8", "9">> \o UpperChars
    \o <<"_">> \o LowerChars \o <<"|">>

CodesOf(s) == [i \in DOMAIN s |-> CHOOSE c \in DOMAIN CodeOrder : CodeOrder[c] = s[i]]

\* s comes before t in lexicographic order
LexBefore(s, t) == LexLess(CodesOf(s), CodesOf(t))

\* the name of the file is YYYY-MM-DD.md
HasDateName(p) ==
  LET name == PathBasename(p)
  IN  /\ Len(name) = 13
      /\ \A i \in 1..10 : IF i \in {5, 8} THEN name[i] = "-" ELSE name[i] \in DigitChars
      /\ SubSeq(name, 11, 13) = <<".","m","d">>

\* the date in the name of a dated file, YYYY-MM-DD
DateOf(p) == SubSeq(PathBasename(p), 1, 10)

DatedFiles == { i \in DOMAIN files : HasDateName(files[i].path) }

TimelineEdges(g) == SelectSeq(g.links, LAMBDA l : l.type = "timeline")

\* the dated files a and b, b the one right after a in lexicographic label order
IsNextByLabel(a, b) ==
  /\ LexBefore(files[a].path, files[b].path)
  /\ \A c \in DatedFiles :
       ~(LexBefore(files[a].path, files[c].path) /\ LexBefore(files[c].path, files[b].path))

\* C8: with n dated files there are max(0, n - 1) timeline edges, each from
\* a dated file to the dated file right after it in lexicographic label
\* order, and that order is the order of the dates in the file names.
C8_TimelineChain ==
  IsBuilt =>
    /\ Len(TimelineEdges(graph))
         = IF DatedFiles = {} THEN 0 ELSE Cardinality(DatedFiles) - 1
    /\ \A k \in DOMAIN TimelineEdges(graph) :
         \E a, b \in DatedFiles :
           /\ TimelineEdges(graph)[k].source = FilePrefix \o files[a].path
           /\ TimelineEdges(graph)[k].target = FilePrefix \o files[b].path
           /\ IsNextByLabel(a, b)
           /\ ~LexBefore(DateOf(files[b].path), DateOf(files[a].path))

\* the chain alone: the edges go from each dated file to the next one in
\* lexicographic label order
TimelineFollowsLabels ==
  IsBuilt =>
    /\ Len(TimelineEdges(graph))
         = IF DatedFiles = {} THEN 0 ELSE Cardinality(DatedFiles) - 1
    /\ \A k \in DOMAIN TimelineEdges(graph) :
         \E a, b \in DatedFiles :
           /\ TimelineEdges(graph)[k].source = FilePrefix \o files[a].path
           /\ TimelineEdges(graph)[k].target = FilePrefix \o files[b].path
           /\ IsNextByLabel(a, b)

(***************************************************************************)
(* server/index.js                                                         *)
(***************************************************************************)
CACHE_TTL == 30000

\* an absolute path without its trailing slashes, "/" for the root
WithoutTrailingSlash(p) ==
  IF StripTrailingSlashes(p) = <<>> THEN << Slash >> ELSE StripTrailingSlashes(p)

\* path.resolve(from, p) for an absolute from: p alone if it is absolute,
\* the result normalised and without a trailing slash
PathResolve(from, p) ==
  WithoutTrailingSlash(
    PathNormalize(IF p # <<>> /\ p[1] = Slash THEN p ELSE from \o << Slash >> \o p))

\* the segments of an absolute path
SegmentsOf(p) == SelectSeq(Split(p, Slash), NonEmpty)

\* path.relative(from, to) for absolute paths
PathRelative(from, to) ==
  LET a == SegmentsOf(PathResolve(from, <<>>))
      b == SegmentsOf(PathResolve(to, <<>>))
      \* the number of leading segments a and b have in common
      common == Cardinality({ n \in 1..Len(a) :
                                n <= Len(b) /\ SubSeq(a, 1, n) = SubSeq(b, 1, n) })
  IN  JoinWith([i \in 1..(Len(a) - common) |-> DotDot] \o SubSeq(b, common + 1, Len(b)),
               Slash)

\* `${n}` for a number n >= 0
RECURSIVE DecimalOf(_)
DecimalOf(n) ==
  IF n < 10 THEN << Digits[n + 1] >> ELSE DecimalOf(n \div 10) \o << Digits[(n % 10) + 1] >>

\* the patterns of discoverFiles: MEMORY.md, memory/**/*.md (no file of the
\* disk has a name that starts with a dot)
MatchesPatterns(relativePath) ==
  \/ relativePath = PathMemory
  \/ /\ StartsWith(relativePath, <<"m","e","m","o","r","y","/">>)
     /\ EndsWith(relativePath, MdExt)

\* the files glob finds below cwd: those whose relative path matches a pattern
Discoverable(cwd, fileSystem) ==
  { p \in DOMAIN fileSystem :
      /\ StartsWith(p, PathResolve(cwd, <<>>) \o << Slash >>)
      /\ MatchesPatterns(PathRelative(cwd, p)) }

\* the set S as a list, in any order
ListingsOf(S) == { s \in [1..Cardinality(S) -> S] : Range(s) = S }

\* res.status(status).json(body), or res.send(text) with the text as body.text
Response(status, body) == [ status |-> status, body |-> body ]

RemoveAt(seq, i) == SubSeq(seq, 1, i - 1) \o SubSeq(seq, i + 1, Len(seq))

\* what parseFile is given for the listed files: the path relative to the
\* root and the content the file has now, if it is still there
ReadFiles(listing) ==
  [k \in DOMAIN listing |->
     [ path |-> PathRelative(root, listing[k]),
       content |-> IF listing[k] \in DOMAIN disk THEN disk[listing[k]] ELSE <<>>,
       readable |-> listing[k] \in DOMAIN disk ]]

MaxPending == 1

\* GET /api/graph up to the await of getGraph: the cached graph is sent if
\* there is one younger than CACHE_TTL, else the call waits for discoverFiles,
\* as long as fewer than maxPending calls are waiting
GetApiGraphUpTo(maxPending) ==
  /\ IF cachedGraph # NullObject /\ clock - lastParseTime < CACHE_TTL
       THEN /\ reply' = Response(200, cachedGraph)
            /\ UNCHANGED pending
       ELSE /\ Len(pending) < maxPending
            /\ pending' = Append(pending, [ now |-> clock, at |-> "glob", files |-> <<>> ])
            /\ UNCHANGED reply
  /\ unserved' = FALSE
  /\ UNCHANGED << root, disk, clock, cachedGraph, lastParseTime >>
  /\ UNCHANGED pipelineVars

\* GET /api/graph
GetApiGraph == GetApiGraphUpTo(MaxPending)

\* glob has gone through the directories: the files there are now that match
\* the patterns, in some order
DiscoverFiles(i) ==
  /\ pending[i].at = "glob"
  /\ \E listing \in ListingsOf(Discoverable(root, disk)) :
       pending' = [pending EXCEPT ![i] = [ now |-> pending[i].now, at |-> "listed",
                                            files |-> listing ]]
  /\ UNCHANGED << root, unserved, disk, clock, cachedGraph, lastParseTime, reply >>
  /\ UNCHANGED pipelineVars

\* mutant of DiscoverFilesFails: the failed rebuild drops the cached graph
DiscoverFilesFailsDropsCache(i) ==
  /\ pending[i].at = "glob"
  /\ pending' = RemoveAt(pending, i)
  /\ reply' = Response(500, [ ok |-> FALSE, error |-> "discovery failed" ])
  /\ cachedGraph' = NullObject
  /\ lastParseTime' = 0
  /\ UNCHANGED << root, unserved, disk, clock >>
  /\ UNCHANGED pipelineVars

\* glob rejects: getGraph throws and the handler answers 500 (lines 46-48)
DiscoverFilesFails(i) ==
  /\ pending[i].at = "glob"
  /\ pending' = RemoveAt(pending, i)
  /\ reply' = Response(500, [ ok |-> FALSE, error |-> "discovery failed" ])
  /\ UNCHANGED << root, unserved, disk, clock, cachedGraph, lastParseTime >>
  /\ UNCHANGED pipelineVars

\* getGraph after the await, lines 28-39, and res.json(graph): the listed
\* files are read and parsed now, the graph is built, cached and sent
GetGraphResume(i) ==
  /\ pending[i].at = "listed"
  /\ cachedGraph' = buildGraph(ParseAll(ReadFiles(pending[i].files)))
  /\ lastParseTime' = pending[i].now
  /\ reply' = Response(200, cachedGraph')
  /\ pending' = RemoveAt(pending, i)
  /\ UNCHANGED << root, unserved, disk, clock >>
  /\ UNCHANGED pipelineVars

\* a handler returns early with an error
Reject(status, error) ==
  /\ reply' = Response(status, [ error |-> error ])
  /\ UNCHANGED << root, unserved, disk, clock, cachedGraph, lastParseTime, pending >>
  /\ UNCHANGED pipelineVars

\* GET /api/source for the resolved path, lines 57-66
GetResolved(fullPath) ==
  IF ~StartsWith(fullPath, root) THEN Reject(403, "Access denied")
  ELSE IF fullPath \notin DOMAIN disk THEN Reject(404, "File not found")
  ELSE /\ reply' = Response(200, [ text |-> disk[fullPath] ])
       /\ UNCHANGED << root, unserved, disk, clock, cachedGraph, lastParseTime, pending >>
       /\ UNCHANGED pipelineVars

\* GET /api/source
GetSource(filePath) ==
  IF filePath = Undefined \/ filePath = <<>> THEN Reject(400, "Missing path")
  ELSE GetResolved(PathResolve(root, filePath))

MaxDiskFiles == 4

\* `${fullPath}.bak-${Date.now()}` and `${fullPath}.del-${Date.now()}`
BackupPath(fullPath, suffix) == fullPath \o suffix \o DecimalOf(clock)

\* mutant of Modify: the cache is left as it is
ModifyKeepCache(newDisk, backupPath) ==
  /\ Cardinality(DOMAIN newDisk) <= MaxDiskFiles
  /\ disk' = newDisk
  /\ reply' = Response(200, [ ok |-> TRUE, backup |-> PathRelative(root, backupPath) ])
  /\ unserved' = TRUE
  /\ UNCHANGED << root, clock, pending, cachedGraph, lastParseTime >>
  /\ UNCHANGED pipelineVars

\* lines 89-99 and 124-133: the backup is made, the file written or removed,
\* the cache invalidated and the backup named in the answer
Modify(newDisk, backupPath) ==
  /\ Cardinality(DOMAIN newDisk) <= MaxDiskFiles
  /\ disk' = newDisk
  /\ cachedGraph' = NullObject
  /\ lastParseTime' = 0
  /\ reply' = Response(200, [ ok |-> TRUE, backup |-> PathRelative(root, backupPath) ])
  /\ unserved' = TRUE
  /\ UNCHANGED << root, clock, pending >>
  /\ UNCHANGED pipelineVars

\* PUT /api/source for the resolved path, lines 76-99
PutResolved(fullPath, content) ==
  IF ~StartsWith(fullPath, root) THEN Reject(403, "Access denied")
  ELSE IF ~EndsWith(ToLowerCase(fullPath), MdExt)
    THEN Reject(400, "Only .md files are editable")
  ELSE IF fullPath \notin DOMAIN disk THEN Reject(404, "File not found")
  ELSE \* fs.copyFileSync(fullPath, backupPath); fs.writeFileSync(fullPath, content)
       Modify([p \in DOMAIN disk \cup {BackupPath(fullPath, <<".","b","a","k","-">>)} |->
                 IF p = fullPath THEN content
                 ELSE IF p = BackupPath(fullPath, <<".","b","a","k","-">>) THEN disk[fullPath]
                 ELSE disk[p]],
              BackupPath(fullPath, <<".","b","a","k","-">>))

\* PUT /api/source
PutSource(filePath, content) ==
  IF filePath = Undefined \/ filePath = <<>> THEN Reject(400, "Missing path")
  ELSE IF content = Undefined THEN Reject(400, "Missing content")
  ELSE PutResolved(PathResolve(root, filePath), content)

\* DELETE /api/source for the resolved path, lines 111-133
DeleteResolved(fullPath) ==
  IF ~StartsWith(fullPath, root) THEN Reject(403, "Access denied")
  ELSE IF ~EndsWith(ToLowerCase(fullPath), MdExt)
    THEN Reject(400, "Only .md files can be deleted via this API")
  ELSE IF fullPath \notin DOMAIN disk THEN Reject(404, "File not found")
  ELSE \* fs.copyFileSync(fullPath, backupPath); fs.unlinkSync(fullPath)
       Modify([p \in (DOMAIN disk \cup {BackupPath(fullPath, <<".","d","e","l","-">>)})
                       \ {fullPath} |->
                 IF p = BackupPath(fullPath, <<".","d","e","l","-">>) THEN disk[fullPath]
                 ELSE disk[p]],
              BackupPath(fullPath, <<".","d","e","l","-">>))

\* DELETE /api/source
DeleteSource(filePath) ==
  IF filePath = Undefined \/ filePath = <<>> THEN Reject(400, "Missing path")
  ELSE DeleteResolved(PathResolve(root, filePath))

StartTime == 1000

MaxPeriods == 1

MaxMillis == 1

\* time passes, to one of the instants considered: for a few periods, the
\* millisecond at which CACHE_TTL has passed since the start and the ones
\* just before it
Tick ==
  /\ \E k \in 1..MaxPeriods, j \in 0..MaxMillis :
        /\ StartTime + (k * CACHE_TTL) - j > clock
        /\ clock' = StartTime + (k * CACHE_TTL) - j
  /\ UNCHANGED << root, unserved, disk, cachedGraph, lastParseTime, pending, reply >>
  /\ UNCHANGED pipelineVars

RequestPaths == { Undefined, PathMemory, PathA }

\* the server has started: SIGNAL_GRAPH_ROOT is set, with or without a
\* trailing slash, and nothing is cached
Init ==
  /\ files = <<>>
  /\ allParsed = <<>>
  /\ graph = NullObject
  /\ pc = "idle"
  /\ markdown = <<>>
  /\ words = <<>>
  /\ keywords = {}
  /\ root \in { <<"/","w">>, <<"/","w","/">> }
  \* the files there are when the server starts, one of them beside the root
  /\ disk =
       [p \in { <<"/","w","/","M","E","M","O","R","Y",".","m","d">>, <<"/","w","/","m","e","m","o","r","y","/","a",".","m","d">>, <<"/","w","2","/","x",".","m","d">> } |->
          IF p = <<"/","w","/","M","E","M","O","R","Y",".","m","d">> THEN <<"[","[","X","]","]"," ","#","t">>
          ELSE IF p = <<"/","w","/","m","e","m","o","r","y","/","a",".","m","d">> THEN <<"[","[","X","]","]">>
          ELSE <<"x">>]
  /\ clock = StartTime
  /\ cachedGraph = NullObject
  /\ lastParseTime = 0
  /\ pending = <<>>
  /\ reply = NullObject
  /\ unserved = FALSE

Next ==
  \/ GetApiGraph
  \/ \E i \in DOMAIN pending : DiscoverFiles(i)
  \/ \E i \in DOMAIN pending : DiscoverFilesFails(i)
  \/ \E i \in DOMAIN pending : GetGraphResume(i)
  \/ \E filePath \in RequestPaths : GetSource(filePath)
  \/ \E filePath \in RequestPaths : \E content \in { Undefined, <<"#","t">> } : PutSource(filePath, content)
  \/ \E filePath \in RequestPaths : DeleteSource(filePath)
  \/ Tick

Spec == Init /\ [][Next]_vars

(***************************************************************************)
(* Properties of the graph cache                                           *)
(***************************************************************************)
\* the response r tells that a PUT or DELETE has succeeded
IsWriteAnswer(r) == r # NullObject /\ r.status = 200 /\ "backup" \in DOMAIN r.body

CacheIsEmpty == cachedGraph = NullObject /\ lastParseTime = 0

\* GET /api/graph arrives and waits for a discovery of its own
StartsDiscovery == Len(pending') = Len(pending) + 1 /\ reply' = reply

\* the graphs of the files as they are now, one for each order glob may list
\* them in
GraphsOfDisk ==
  { buildGraph(ParseAll(ReadFiles(listing))) :
      listing \in ListingsOf(Discoverable(root, disk)) }

\* C10 as stated: once a PUT or DELETE has succeeded the cache is empty, and
\* the /api/graph request that arrives next performs a full discovery, parse
\* and assembly.
C10_NextRequestRescans ==
  [][ /\ IsWriteAnswer(reply') => CacheIsEmpty'
      /\ (unserved /\ GetApiGraph) => StartsDiscovery ]_vars

\* C10: once a PUT or DELETE has succeeded the cache is empty; an /api/graph
\* request that finds the cache empty performs a full discovery, parse and
\* assembly, however recently the last graph was built; if the request that
\* arrives next after the PUT or DELETE is answered from the cache, the graph
\* it gets is one of the files as they are after the PUT or DELETE.
C10_InvalidatedOnWrite ==
  [][ /\ IsWriteAnswer(reply') => CacheIsEmpty'
      /\ (cachedGraph = NullObject /\ GetApiGraph) => StartsDiscovery
      /\ (unserved /\ GetApiGraph /\ ~StartsDiscovery)
           => (reply'.body = cachedGraph /\ cachedGraph \in GraphsOfDisk) ]_vars

\* C10 witness: a PUT or DELETE has just succeeded within CACHE_TTL of the
\* start, a call of getGraph is waiting, and the cache is empty
C10_Witness ==
  /\ IsWriteAnswer(reply)
  /\ unserved
  /\ CacheIsEmpty
  /\ pending # <<>>
  /\ clock - StartTime < CACHE_TTL

\* a request served from the cache although a PUT or DELETE has succeeded
\* since the last request arrived
RefilledAfterWrite == unserved /\ cachedGraph # NullObject

(***************************************************************************)
(* Properties of a failed discovery                                        *)
(***************************************************************************)
\* the response r is a graph
IsGraphAnswer(r) == r # NullObject /\ r.status = 200 /\ "nodes" \in DOMAIN r.body

\* C11: when discoverFiles fails the /api/graph request is answered with an
\* error (status 500, ok false, no graph), and the cached graph and its
\* timestamp are what they were: the failed rebuild neither replaces nor
\* changes them.
C11_FailedDiscoveryKeepsCache ==
  [][ \A i \in DOMAIN pending :
        DiscoverFilesFails(i) =>
          /\ reply'.status = 500
          /\ reply'.body.ok = FALSE
          /\ ~IsGraphAnswer(reply')
          /\ cachedGraph' = cachedGraph
          /\ lastParseTime' = lastParseTime ]_vars

\* C11 witness: a graph was cached, grew older than CACHE_TTL, and the rebuild
\* a request started has failed; the old graph is still cached
C11_Witness ==
  /\ reply # NullObject
  /\ reply.status = 500
  /\ cachedGraph # NullObject
  /\ lastParseTime = StartTime
  /\ clock - lastParseTime >= CACHE_TTL
  /\ pending = <<>>

(***************************************************************************)
(* Requests for paths inside and outside the root                          *)
(***************************************************************************)
\* the paths asked for: none, a file of the root, a file beside the root
\* reached with "..", and an absolute path elsewhere
EditPaths == { Undefined, PathMemory, <<".",".","/","w","2","/","x",".","m","d">>, <<"/","e","t","c","/","x",".","m","d">> }

\* the routes of the server at one instant
NextEdit ==
  \/ GetApiGraph
  \/ \E i \in DOMAIN pending : DiscoverFiles(i)
  \/ \E i \in DOMAIN pending : GetGraphResume(i)
  \/ \E filePath \in EditPaths : \E content \in { Undefined, <<"#","t">> } : PutSource(filePath, content)
  \/ \E filePath \in EditPaths : DeleteSource(filePath)

SpecEdit == Init /\ [][NextEdit]_vars

\* the absolute path p is a descendant of the root directory
IsUnderRoot(p) == StartsWith(p, PathResolve(root, <<>>) \o << Slash >>)

\* the request for filePath changes no file and leaves the cache as it is
LeavesAllUnchanged ==
  disk' = disk /\ cachedGraph' = cachedGraph /\ lastParseTime' = lastParseTime

\* what C12 says of a PUT or DELETE step for the path filePath
EditIsConfined(filePath) ==
  LET fullPath == PathResolve(root, filePath)
  IN  /\ disk' # disk => (IsUnderRoot(fullPath) /\ EndsWith(ToLowerCase(fullPath), MdExt))
      /\ ~IsUnderRoot(fullPath) => (reply'.status # 200 /\ LeavesAllUnchanged)

\* C12: a PUT or DELETE on /api/source changes the files only if the path it
\* resolves to is a descendant of the root directory and ends in .md; a
\* request whose resolved path lies outside the root directory is rejected
\* and leaves the files and the graph cache unchanged.
C12_EditsConfinedToRoot ==
  [][ \A filePath \in EditPaths \ { Undefined } :
        /\ (\E content \in { Undefined, <<"#","t">> } : PutSource(filePath, content))
             => EditIsConfined(filePath)
        /\ DeleteSource(filePath) => EditIsConfined(filePath) ]_vars

(***************************************************************************)
(* Properties of the backups                                               *)
(***************************************************************************)
\* what C13 says of a save of fullPath with the backup file backupPath: the
\* backup is a file of its own, holds what the target held, and every other
\* file, the earlier backups among them, is as it was
SaveKeepsBackups(fullPath, backupPath) ==
  /\ backupPath \notin DOMAIN disk
  /\ backupPath \in DOMAIN disk'
  /\ disk'[backupPath] = disk[fullPath]
  /\ \A p \in DOMAIN disk \ { fullPath } : p \in DOMAIN disk' /\ disk'[p] = disk[p]

\* C13: every successful PUT /api/source leaves a backup file of its own that
\* holds the content the target had immediately before the save, and leaves
\* the backups of the earlier saves as they are, so that the content before
\* every save stays recoverable.
C13_EverySaveOwnBackup ==
  [][ \A filePath \in RequestPaths \ { Undefined } :
        (PutSource(filePath, <<"#","t">>) /\ IsWriteAnswer(reply'))
          => SaveKeepsBackups(PathResolve(root, filePath),
                              BackupPath(PathResolve(root, filePath), <<".","b","a","k","-">>)) ]_vars

(***************************************************************************)
(* extractKeywords on its own                                              *)
(***************************************************************************)
\* lines 18-31: the document is stripped, lowercased, split and filtered
SplitWords ==
  /\ pc = "markdown"
  /\ words' = KeywordWords(markdown)
  /\ pc' = "words"
  /\ UNCHANGED << files, allParsed, graph, markdown, keywords >>
  /\ UNCHANGED serverVars

\* mutant of CapKeywords: the set of all the words, without the cap
KeepAllKeywords ==
  /\ pc = "words"
  /\ keywords' = Range(words)
  /\ pc' = "keywords"
  /\ UNCHANGED << files, allParsed, graph, markdown, words >>
  /\ UNCHANGED serverVars

\* line 34: return new Set(words.slice(0, 4000))
CapKeywords ==
  /\ pc = "words"
  /\ keywords' = CappedSet(words)
  /\ pc' = "keywords"
  /\ UNCHANGED << files, allParsed, graph, markdown, words >>
  /\ UNCHANGED serverVars

MaxSlack == 2

\* the n-th of a list of distinct words that pass the filter
WordOf(n) == <<"k","w">> \o DecimalOf(1000 + n)

\* extractKeywords is given a short document, or has made of a long one the
\* array words that holds one word repeats times and then distinct other
\* words, both numbers small or within MaxSlack of the cap
InitWords ==
  /\ ServerAtRest
  /\ files = <<>> /\ allParsed = <<>> /\ graph = NullObject /\ keywords = {}
  /\ \/ /\ pc = "markdown"
        /\ words = <<>>
        /\ markdown \in
             { <<>>,
               <<"T","h","e"," ","M","e","m","o","r","y"," ","o","f"," ","M","E","M","O","R","Y","-","n","o","t","e","s"," ","m","e","m","o","_","1"," ","m","e","m","o">>,
               <<"a","b","c","d"," ","A","B","C","D"," ","A","b","c","d"," ","a","b","c",","," ","d","o","n","'","t"," ","s","t","o","p",".">>,
               <<"e",".","g","."," ","w","e","l","l","-","k","n","o","w","n","_","t","h","i","n","g","!"," ","a","b","c","d","e">>,
               Fence \o <<"c","o","d","e"," ","w","o","r","d">> \o Fence \o <<" ","A","l","p","h","a"," ","t","h","a","t"," ","b","e","t","a">>,
               <<Backtick>> \o <<"i","n","l","i","n","e">> \o <<Backtick>> \o <<" ","g","a","m","m","a"," ">> \o <<Backtick>> \o <<"t","i","c","k">>,
               <<"s","e","e"," ","[","L","i","n","k"," ","t","e","x","t","]","(","h","t","t","p",":","/","/","x",".","y","/","z","z","z","z",")"," ","h","e","r","e">>,
               <<"a","t"," ","h","t","t","p","s",":","/","/","e","x","a","m","p","l","e",".","c","o","m","/","p","a","g","e","\n","W","I","T","H","O","U","T">>,
               <<"b","e","t","w","e","e","n","\t","t","h","e","s","e"," ","2","0","2","6","-","0","1","-","0","2"," ","1","2","3","4">>,
               Fence \o <<" ","o","p","e","n"," ","f","e","n","c","e"," ","[","h","a","l","f","]","(","l","i","n","k"," ","h","t","t","p",":","/","/">> }
     \/ /\ pc = "words"
        /\ markdown = <<>>
        /\ \E repeats, others \in
                0..MaxSlack \cup ((MaxKeywords - MaxSlack)..(MaxKeywords + MaxSlack)) :
             words = [i \in 1..repeats |-> WordOf(0)] \o [i \in 1..others |-> WordOf(i)]

SpecWords == InitWords /\ [][SplitWords \/ CapKeywords]_vars

(***************************************************************************)
(* Properties of extractKeywords                                           *)
(***************************************************************************)
\* the token w is lowercase letters, digits, hyphens and underscores only,
\* has at least 4 characters and is no stopword
Qualifies(w) ==
  /\ \A i \in DOMAIN w : IsLower(w[i]) \/ IsDigit(w[i]) \/ w[i] \in {"_", "-"}
  /\ Len(w) >= 4
  /\ w \notin STOPWORDS

\* the largest i in lo..hi such that the first i elements of ws hold at most
\* n distinct ones (the first lo elements do)
RECURSIVE CutIndex(_, _, _, _)
CutIndex(ws, lo, hi, n) ==
  IF lo = hi THEN lo
  ELSE LET mid == (lo + hi + 1) \div 2
       IN  IF Cardinality(Range(SubSeq(ws, 1, mid))) <= n
             THEN CutIndex(ws, mid, hi, n)
             ELSE CutIndex(ws, lo, mid - 1, n)

\* C14 as stated: the result holds qualifying tokens only, never more than
\* 4000; it is the set of all the distinct qualifying tokens when there are
\* at most 4000 of them, and else the first 4000 distinct ones in the order
\* of their first occurrence.
C14_FirstDistinctTokens ==
  pc = "keywords" =>
    /\ \A w \in keywords : Qualifies(w)
    /\ Cardinality(keywords) <= 4000
    /\ keywords = IF Cardinality(Range(words)) <= 4000 THEN Range(words)
                  ELSE Range(SubSeq(words, 1, CutIndex(words, 0, Len(words), 4000)))

\* C14: the result holds qualifying tokens only, never more than 4000; it is
\* the set of the distinct tokens among the first 4000 qualifying token
\* occurrences of the document, hence of all of them when the document has
\* at most 4000 occurrences.
C14_FirstOccurrences ==
  pc = "keywords" =>
    /\ \A w \in keywords : Qualifies(w)
    /\ Cardinality(keywords) <= 4000
    /\ keywords = { words[i] : i \in { j \in DOMAIN words : j <= 4000 } }
    /\ Len(words) <= 4000 => keywords = Range(words)

\* C14 witness: the document has more than 4000 qualifying token occurrences
\* and at most 4000 distinct tokens, and one that first occurs after the
\* 4000th occurrence is not in the result
C14_Witness ==
  /\ pc = "keywords"
  /\ Len(words) > 4000
  /\ Cardinality(Range(words)) <= 4000
  /\ words[Len(words)] \notin keywords

(***************************************************************************)
(* Referential integrity                                                   *)
(***************************************************************************)
\* the ids of the file nodes of graph g
FileNodeIds(g) == { g.nodes[i].id : i \in { j \in DOMAIN g.nodes : g.nodes[j].type = "file" } }

\* C15: in the graph buildGraph returns, the source and the target of every
\* edge are ids of nodes of the graph, and every ref, related and timeline
\* edge joins two distinct file nodes.
C15_ReferentialIntegrity ==
  IsBuilt =>
    \A k \in DOMAIN graph.links :
      /\ graph.links[k].source \in { graph.nodes[i].id : i \in DOMAIN graph.nodes }
      /\ graph.links[k].target \in { graph.nodes[i].id : i \in DOMAIN graph.nodes }
      /\ graph.links[k].type \in { "ref", "related", "timeline" } =>
           /\ graph.links[k].source \in FileNodeIds(graph)
           /\ graph.links[k].target \in FileNodeIds(graph)
           /\ graph.links[k].source # graph.links[k].target

(***************************************************************************)
(* Concurrent requests for the graph                                       *)
(***************************************************************************)
MaxRacing == 2

\* up to MaxRacing calls of getGraph wait for discoverFiles at a time, while
\* files are saved and deleted, all within one millisecond
SpecRace ==
  Init /\ [][ \/ GetApiGraphUpTo(MaxRacing)
              \/ \E i \in DOMAIN pending : DiscoverFiles(i)
              \/ \E i \in DOMAIN pending : GetGraphResume(i)
              \/ \E filePath \in { PathMemory, PathA } : PutSource(filePath, <<"#","t">>)
              \/ \E filePath \in { PathMemory, PathA } : DeleteSource(filePath) ]_vars

\* C16: the cache is null or a completely assembled graph of the files as
\* the last PUT or DELETE left them, and so is every graph sent in answer to
\* /api/graph, however the calls of getGraph and the PUT and DELETE handlers
\* interleave.
C16_CacheIsFresh ==
  /\ cachedGraph = NullObject \/ cachedGraph \in GraphsOfDisk
  /\ IsGraphAnswer(reply) => reply.body \in GraphsOfDisk

\* C16 witness: two calls of getGraph were waiting when a PUT or DELETE
\* succeeded; one of them has resumed and filled the cache, the other one is
\* still waiting
C16_Witness ==
  /\ unserved
  /\ cachedGraph # NullObject
  /\ IsGraphAnswer(reply)
  /\ pending # <<>>

====
